---------------------------- MODULE Spec2Model ----------------------------
(***************************************************************************)
(* Model of the Rudle solver (src/src/main.rs): the hint engine            *)
(* (Hint::from_guess_and_answer, Hint::from_string), the scoring engine    *)
(* (get_scores) and the solver REPL session (solve).                       *)
(*                                                                         *)
(* Characters are one-character strings.  A Word is a sequence of          *)
(* characters, a Hint a sequence of LetterHint values.  A Result<T,String> *)
(* is a record [ok |-> TRUE, val |-> v] or [ok |-> FALSE, err |-> msg].    *)
(***************************************************************************)
EXTENDS Integers, Sequences, FiniteSets, TLC

VARIABLES
    unique_words,       \* the HashSet<Word> load_words collects the word list from
    word_list,          \* Vec<Word>: the word list as solve is given it
    remaining_guesses,  \* Vec<Word>
    remaining_answers,  \* Vec<Word>
    removed_answers,    \* Vec<Vec<Word>>
    guess_history,      \* Vec<(Word, Hint)>
    word_scores,        \* Vec<Vec<(Word, f32, f32)>>
    status,             \* "active" | "exited" | "panicked" | "idle"
    steps,              \* the hint and undo commands run so far
    output,             \* what the last command did and printed
    snapshots,          \* the session state on entry of each hint still in the history
    fn                  \* the pure-function harness: inputs, position, result

vars == <<unique_words, word_list, remaining_guesses, remaining_answers,
          removed_answers, guess_history, word_scores, status, steps, output,
          snapshots, fn>>

session == <<remaining_guesses, remaining_answers, removed_answers,
             guess_history, word_scores>>

-----------------------------------------------------------------------------
(* Bounds of the model *)

\* the longest word list a session starts with
MaxWords == 2
\* the most hint and undo commands a session runs
MaxSteps == 3
\* the largest n given to the top command
MaxTop == 1
\* the longest word and feedback text given to the pure functions
MaxLen == 3
\* the most answers given to get_scores on its own
MaxAnswers == 8
\* the most guesses given to get_scores on its own
MaxGuesses == 2

-----------------------------------------------------------------------------
(* Characters *)

UpperLetters == <<"A", "B", "C", "D", "E", "G", "I", "K", "L", "O", "R", "S", "T", "U">>
LowerLetters == <<"a", "b", "c", "d", "e", "g", "i", "k", "l", "o", "r", "s", "t", "u">>

Range(s) == {s[i] : i \in 1..Len(s)}

\* a letter that is alphabetic but not ASCII
NonAsciiLetters == {"é"}

Alphabetic == Range(UpperLetters) \cup Range(LowerLetters) \cup NonAsciiLetters

AsciiUppercase == Range(UpperLetters)

UpperOf ==
    [c \in Range(LowerLetters) |->
        UpperLetters[CHOOSE i \in 1..Len(LowerLetters) : LowerLetters[i] = c]]

LowerOf ==
    [c \in Range(UpperLetters) |->
        LowerLetters[CHOOSE i \in 1..Len(UpperLetters) : UpperLetters[i] = c]]

\* char::is_alphabetic
IsAlphabetic(c) == c \in Alphabetic

\* char::is_ascii_uppercase
IsAsciiUppercase(c) == c \in AsciiUppercase

\* char::to_ascii_uppercase
ToAsciiUppercase(c) == IF c \in DOMAIN UpperOf THEN UpperOf[c] ELSE c

Ok(v) == [ok |-> TRUE, val |-> v]
Err(msg) == [ok |-> FALSE, err |-> msg]

Min(a, b) == IF a < b THEN a ELSE b

-----------------------------------------------------------------------------
(* Word *)

\* Word::new
WordNew(chars) ==
    IF ~ \A i \in 1..Len(chars) : IsAlphabetic(chars[i])
    THEN Err("Input string must contain only alphabetic characters.")
    ELSE IF ~ \A i \in 1..Len(chars) : IsAsciiUppercase(chars[i])
    THEN Err("Input string must contain only uppercase characters.")
    ELSE Ok(chars)

\* Word::from_string
WordFromString(s) ==
    IF ~ \A i \in 1..Len(s) : IsAlphabetic(s[i])
    THEN Err("Input string must contain only alphabetic characters.")
    ELSE WordNew([i \in 1..Len(s) |-> ToAsciiUppercase(s[i])])

-----------------------------------------------------------------------------
(* Hint *)

LetterHint == {"Correct", "Misplaced", "Incorrect"}

\* Iterator::position: the first index holding c, 0 for None
Position(chars, c) ==
    IF \E i \in 1..Len(chars) : chars[i] = c
    THEN CHOOSE i \in 1..Len(chars) :
            chars[i] = c /\ \A j \in 1..(i - 1) : chars[j] # c
    ELSE 0

\* HintFromString reading any other character as Incorrect
HintFromStringLenient(hint, guess) ==
    Ok([i \in 1..Min(Len(hint), Len(guess)) |->
          IF ToAsciiUppercase(hint[i]) = guess[i] THEN "Correct"
          ELSE IF hint[i] = "*" THEN "Misplaced"
          ELSE "Incorrect"])

\* Hint::from_string: zip stops at the shorter of the two
HintFromString(hint, guess) ==
    LET n == Min(Len(hint), Len(guess))
    IN  IF \E i \in 1..n :
              hint[i] # "*" /\ hint[i] # "_" /\ ToAsciiUppercase(hint[i]) # guess[i]
        THEN Err("Invalid hint character")
        ELSE Ok([i \in 1..n |->
                  IF ToAsciiUppercase(hint[i]) = guess[i] THEN "Correct"
                  ELSE IF hint[i] = "*" THEN "Misplaced"
                  ELSE "Incorrect"])

\* First pass of from_guess_and_answer: the Correct letters, each used up
FirstPass(guess, answer) ==
    [letter_hints |-> [i \in 1..Len(guess) |->
                         IF guess[i] = answer[i] THEN "Correct" ELSE "Incorrect"],
     answer_chars |-> [i \in 1..Len(answer) |->
                         IF guess[i] = answer[i] THEN "_" ELSE answer[i]]]

\* SecondPassStep with the matched answer letter left in place
SecondPassStepNoConsume(guess, st, i) ==
    IF st.letter_hints[i] = "Correct" THEN st
    ELSE IF Position(st.answer_chars, guess[i]) # 0
         THEN [st EXCEPT !.letter_hints[i] = "Misplaced"]
         ELSE st

\* SecondPassStep looking for the letter from index i on only
SecondPassStepForwardOnly(guess, st, i) ==
    IF st.letter_hints[i] = "Correct" THEN st
    ELSE LET rest == SubSeq(st.answer_chars, i, Len(st.answer_chars))
             pos == Position(rest, guess[i])
         IN  IF pos # 0
             THEN [letter_hints |-> [st.letter_hints EXCEPT ![i] = "Misplaced"],
                   answer_chars |-> [st.answer_chars EXCEPT ![i + pos - 1] = "_"]]
             ELSE st

\* One iteration of the second pass, at index i
SecondPassStep(guess, st, i) ==
    IF st.letter_hints[i] = "Correct" THEN st
    ELSE LET pos == Position(st.answer_chars, guess[i])
         IN  IF pos # 0
             THEN [letter_hints |-> [st.letter_hints EXCEPT ![i] = "Misplaced"],
                   answer_chars |-> [st.answer_chars EXCEPT ![pos] = "_"]]
             ELSE st

\* Second pass of from_guess_and_answer: indices i..Len(guess), left to right
RECURSIVE SecondPass(_, _, _)
SecondPass(guess, st, i) ==
    IF i > Len(guess) THEN st
    ELSE SecondPass(guess, SecondPassStep(guess, st, i), i + 1)

\* Hint::from_guess_and_answer
FromGuessAndAnswer(guess, answer) ==
    IF Len(guess) # Len(answer)
    THEN Err("Guess and answer must have the same length")
    ELSE IF (~ \A i \in 1..Len(guess) : IsAlphabetic(guess[i]))
            /\ (~ \A i \in 1..Len(answer) : IsAlphabetic(answer[i]))
    THEN Err("Guess and answer must contain only alphabetic characters")
    ELSE Ok(SecondPass(guess, FirstPass(guess, answer), 1).letter_hints)

-----------------------------------------------------------------------------
(* The words of the sessions *)

ABACK == <<"A", "B", "A", "C", "K">>
EAGER == <<"E", "A", "G", "E", "R">>
ARISE == <<"A", "R", "I", "S", "E">>
CLOUD == <<"C", "L", "O", "U", "D">>

\* the words a word list is drawn from
Dictionary == {ABACK, EAGER, ARISE}

\* the words the sessions compare
SessionWords == Dictionary \cup {CLOUD}

(* The words get_scores is given on its own *)

BLOCK == <<"B", "L", "O", "C", "K">>
CLOCK == <<"C", "L", "O", "C", "K">>
CLOUT == <<"C", "L", "O", "U", "T">>
DOUBT == <<"D", "O", "U", "B", "T">>
GLOBE == <<"G", "L", "O", "B", "E">>
BUGLE == <<"B", "U", "G", "L", "E">>

SIRES == <<"S", "I", "R", "E", "S">>

\* the answers given to get_scores are the first words of this list: against
\* ARISE five of them give one hint, two another, ABACK and EAGER one each
AnswerPool == <<CLOUD, BLOCK, CLOCK, CLOUT, DOUBT, GLOBE, BUGLE, ABACK, EAGER>>

\* the words the guesses given to get_scores are drawn from
GuessPool == {ARISE, EAGER, SIRES}

\* the words of the model
ModelWords == SessionWords \cup Range(AnswerPool) \cup GuessPool

\* from_guess_and_answer on the words of the model, computed once
HintTable ==
    [p \in ModelWords \X ModelWords |-> FromGuessAndAnswer(p[1], p[2])]

\* a call of Hint::from_guess_and_answer
HintOf(guess, answer) ==
    IF <<guess, answer>> \in DOMAIN HintTable
    THEN HintTable[<<guess, answer>>]
    ELSE FromGuessAndAnswer(guess, answer)

-----------------------------------------------------------------------------
(* get_scores *)

\* the keys a guess puts into hint_counts, answer by answer: the Results of
\* from_guess_and_answer
HintsOf(guess, answers) ==
    [i \in 1..Len(answers) |-> HintOf(guess, answers[i])] \o <<>>

\* hint_counts: the count held under key h
HintCount(hints, h) == Cardinality({i \in 1..Len(hints) : hints[i] = h})

\* the largest count of hint_counts, 0 when it is empty
MaxCount(hints) ==
    LET counts == {HintCount(hints, h) : h \in Range(hints)}
    IN  IF counts = {} THEN 0 ELSE CHOOSE c \in counts : \A d \in counts : d <= c

\* the orders iteration can give the elements of a HashSet or the keys of a
\* HashMap
RECURSIVE Orders(_)
Orders(words) ==
    IF words = {} THEN {<<>>}
    ELSE UNION {{<<w>> \o l : l \in Orders(words \ {w})} : w \in words}

\* An f32 that is zero or positive and normal is held as its bit pattern, an
\* integer: the biased exponent above the 23 bits of the fraction.  The values
\* p * ln(p) are zero or negative and are held by their magnitude, so that the
\* sum of the terms is held by the magnitude of the entropy.
F32Exp(b) == b \div (2^23)
F32Sig(b) == 2^23 + (b % (2^23))

\* m shifted right by d bits, the bits shifted out kept as a sticky lowest bit
ShiftSticky(m, d) ==
    IF d >= 31 THEN (IF m = 0 THEN 0 ELSE 1)
    ELSE LET q == m \div (2^d)
         IN  IF m % (2^d) # 0 /\ q % 2 = 0 THEN q + 1 ELSE q

\* the f32 of exponent e nearest to the significand s, which carries three
\* more bits than an f32 holds: round to nearest, ties to even
F32Round(e, s) ==
    LET mant == s \div 8
        rem == s % 8
        up == rem > 4 \/ (rem = 4 /\ mant % 2 = 1)
        m == IF up THEN mant + 1 ELSE mant
    IN  IF m = 2^24 THEN (e + 1) * (2^23) ELSE e * (2^23) + (m - 2^23)

\* a + b in f32, for two values of one sign
F32Add(a, b) ==
    IF a = 0 THEN b
    ELSE IF b = 0 THEN a
    ELSE LET hi == IF a >= b THEN a ELSE b
             lo == IF a >= b THEN b ELSE a
             s == F32Sig(hi) * 8
                    + ShiftSticky(F32Sig(lo) * 8, F32Exp(hi) - F32Exp(lo))
         IN  IF s >= 2^27
             THEN F32Round(F32Exp(hi) + 1, ShiftSticky(s, 1))
             ELSE F32Round(F32Exp(hi), s)

\* TermBits[n][c]: the magnitude of p * f32::ln(p) for p = c / n in f32, as
\* the division, logf and the multiplication give it, for up to 9 answers
TermBits ==
    <<<<0>>,
      <<1051816472, 0>>,
      <<1052475163, 1049257492, 0>>,
      <<1051816472, 1051816472, 1046278298, 0>>,
      <<1050988147, 1052485638, 1050471670, 1043778711, 0>>,
      <<1050207638, 1052475163, 1051816472, 1049257492, 1041994945, 0>>,
      <<1049515094, 1052197606, 1052371934, 1050917443, 1047927547, 1040665821, 0>>,
      <<1048909202, 1051816472, 1052529080, 1051816472, 1050044083, 1046278298, 1039092171, 0>>,
      <<1048182478, 1051402606, 1052475163, 1052280860, 1051144529, 1049257492, 1044916336, 1037462238, 0>>>>

\* ExpPairs: the magnitude of a sum of terms and the avg_score it gives,
\* (1.0 - f32::exp(-entropy)) * 100.0, as the negation, expf, the subtraction
\* and the multiplication give it, for the sums up to 9 answers have
ExpPairs ==
    <<<<0, 0>>, <<1051892254, 1105958715>>, <<1052829701, 1106977818>>,
      <<1053948612, 1107726878>>, <<1055305718, 1108416387>>, <<1056971359, 1109228607>>,
      <<1057462995, 1109687587>>, <<1058010418, 1110183070>>, <<1058613298, 1110710364>>,
      <<1059254936, 1111251126>>, <<1059675190, 1111594265>>, <<1059867262, 1111748253>>,
      <<1060033296, 1111879953>>, <<1060047235, 1111890950>>, <<1060101302, 1111933520>>,
      <<1060205080, 1112014848>>, <<1060917688, 1112559915>>, <<1061935893, 1113299634>>,
      <<1062814580, 1113902884>>, <<1062814581, 1113902886>>, <<1063131296, 1114112690>>,
      <<1063679790, 1114466796>>, <<1063679791, 1114466798>>, <<1064294378, 1114850060>>,
      <<1064518894, 1114986607>>, <<1064609983, 1115041486>>, <<1064609984, 1115041486>>,
      <<1064765392, 1115134432>>, <<1064922289, 1115227398>>, <<1065269782, 1115430231>>,
      <<1065269783, 1115430232>>, <<1065376018, 1115504487>>, <<1065376019, 1115504489>>,
      <<1065388804, 1115519136>>, <<1065448882, 1115587664>>, <<1065686418, 1115769361>>,
      <<1065813920, 1115839264>>, <<1065863721, 1115866280>>, <<1065863722, 1115866281>>,
      <<1065970138, 1115923475>>, <<1066015850, 1115947822>>, <<1066042722, 1115962072>>,
      <<1066180436, 1116034390>>, <<1066603619, 1116249330>>, <<1066603620, 1116249331>>,
      <<1066642897, 1116268736>>, <<1066642898, 1116268736>>, <<1067140053, 1116506662>>,
      <<1067155841, 1116513989>>, <<1067155842, 1116513990>>, <<1067387062, 1116619733>>,
      <<1067496357, 1116668711>>, <<1067643544, 1116733670>>, <<1067677148, 1116748342>>,
      <<1067895739, 1116842356>>, <<1067895740, 1116842357>>, <<1067960258, 1116869640>>,
      <<1067960259, 1116869641>>, <<1068045022, 1116905168>>, <<1068118616, 1116935726>>,
      <<1068118617, 1116935726>>, <<1068139736, 1116944445>>, <<1068304194, 1117011598>>,
      <<1068447961, 1117069234>>, <<1068447962, 1117069234>>, <<1068593688, 1117126656>>,
      <<1068935663, 1117257554>>, <<1068935664, 1117257554>>, <<1069252379, 1117374115>>,
      <<1069338446, 1117405036>>, <<1069498658, 1117461759>>, <<1069740081, 1117545215>>,
      <<1069740082, 1117545215>>, <<1069965492, 1117620996>>, <<1070047322, 1117648006>>,
      <<1070047323, 1117648007>>, <<1070056796, 1117651117>>, <<1070056797, 1117651117>>,
      <<1070056798, 1117651117>>, <<1070227784, 1117706651>>, <<1070227785, 1117706651>>,
      <<1070465552, 1117782016>>, <<1070952292, 1117929794>>, <<1071032201, 1117953245>>,
      <<1071032202, 1117953246>>, <<1071500958, 1118086408>>, <<1071519904, 1118091636>>,
      <<1071626790, 1118120906>>, <<1071994978, 1118218923>>, <<1072324322, 1118303028>>,
      <<1072812024, 1118421662>>, <<1072812025, 1118421662>>, <<1072954592, 1118455059>>,
      <<1073288088, 1118531000>>, <<1073922984, 1118704575>>, <<1074075025, 1118765056>>,
      <<1074569044, 1118947101>>>>

\* ExpPairs as a function of the sum
ScoreOfSum ==
    [sum \in {ExpPairs[i][1] : i \in 1..Len(ExpPairs)} |->
        ExpPairs[CHOOSE i \in 1..Len(ExpPairs) : ExpPairs[i][1] = sum][2]]

\* .map(|&c| c / answers.len() as f32).map(|p| p * f32::ln(p)) on one value
TermOf(c, n) == TermBits[n][c]

\* .sum::<f32>() over the values of hint_counts, taken in the order of keys
RECURSIVE SumTerms(_, _, _)
SumTerms(hints, keys, k) ==
    IF k = 0 THEN 0
    ELSE F32Add(SumTerms(hints, keys, k - 1),
                TermOf(HintCount(hints, keys[k]), Len(hints)))

\* avg_score = (1 - exp(-entropy)) * 100, when hint_counts.values() iterates
\* in the order of keys
AvgScoreIn(hints, keys) == ScoreOfSum[SumTerms(hints, keys, Len(keys))]

\* the orders hint_counts.values() can take: the HashMap is seeded by
\* RandomState, per thread and per map
KeyOrders(hints) == Orders(Range(hints))

\* avg_score in one of the orders.  With fewer than 8 answers every order
\* gives the same sum.
AvgScore(hints) == AvgScoreIn(hints, CHOOSE keys \in KeyOrders(hints) : TRUE)

\* MinScore without the 100.0 the fold starts from
MinScoreNoFold(hints) ==
    [num |-> 100 * (Len(hints) - MaxCount(hints)), den |-> Len(hints)]

\* min_score = fold(100, min) over 100 * (1 - c / N), held as the fraction num / den
MinScore(hints) ==
    IF Len(hints) = 0 THEN [num |-> 100, den |-> 1]
    ELSE [num |-> 100 * (Len(hints) - MaxCount(hints)), den |-> Len(hints)]

\* one (guess, avg_score, min_score) tuple of chunk_scores
ScoreEntry(guess, answers) ==
    LET hints == HintsOf(guess, answers)
    IN  <<guess, AvgScore(hints), MinScore(hints)>>

\* b.1.partial_cmp(&a.1) = Less: positive f32 compare as their bit patterns
AvgGreater(x, y) == x > y

\* the (guess, avg_score, min_score) tuples in the order of the guesses:
\* par_chunks, map, flat_map_iter and collect keep the order of the slice
ChunkScores(guesses, answers) ==
    [i \in 1..Len(guesses) |-> ScoreEntry(guesses[i], answers)]

\* stable insertion of entry e, which came after every entry of sorted
InsertSorted(sorted, e) ==
    LET k == IF \E i \in 1..Len(sorted) : AvgGreater(e[2], sorted[i][2])
            THEN (CHOOSE i \in 1..Len(sorted) :
                     /\ AvgGreater(e[2], sorted[i][2])
                     /\ \A j \in 1..(i - 1) : ~ AvgGreater(e[2], sorted[j][2])) - 1
            ELSE Len(sorted)
    IN  SubSeq(sorted, 1, k) \o <<e>> \o SubSeq(sorted, k + 1, Len(sorted))

\* sort_by(|a, b| b.1.partial_cmp(&a.1)): stable, avg_score descending
RECURSIVE SortScores(_, _)
SortScores(scores, n) ==
    IF n = 0 THEN <<>>
    ELSE InsertSorted(SortScores(scores, n - 1), scores[n])

\* GetScores returning no entry when there is no answer
GetScoresNoAnswers(guesses, answers) ==
    IF answers = <<>> THEN <<>>
    ELSE SortScores(ChunkScores(guesses, answers), Len(guesses))

\* get_scores
GetScores(guesses, answers) ==
    LET scores == ChunkScores(guesses, answers)
    IN  SortScores(scores, Len(scores))

-----------------------------------------------------------------------------
(* The REPL's input *)

\* config.word_size, at its default
WordSize == 5

Digits == <<"0", "1", "2", "3", "4", "5", "6", "7", "8", "9">>

\* the decimal text of n < 10
NatText(n) == <<Digits[n + 1]>>

RECURSIVE DecimalValue(_, _)
DecimalValue(text, n) ==
    IF n = 0 THEN 0
    ELSE 10 * DecimalValue(text, n - 1)
         + ((CHOOSE d \in 1..10 : Digits[d] = text[n]) - 1)

\* usize::from_str, as clap applies it to top's n
ParseUsize(text) ==
    IF Len(text) > 0 /\ \A i \in 1..Len(text) : text[i] \in Range(Digits)
    THEN Ok(DecimalValue(text, Len(text)))
    ELSE Err("invalid digit found in string")

Strict == <<"s", "t", "r", "i", "c", "t">>

\* the feedback of guess g typed as the help text says: the letter, * or _
HintText(g, h) ==
    [i \in 1..Len(h) |->
        IF h[i] = "Correct"
        THEN LowerOf[g[i]]
        ELSE IF h[i] = "Misplaced" THEN "*" ELSE "_"]

\* hint commands that pass the checks: a guess of the dictionary, typed in
\* lower case, with the feedback EAGER gives, and a guess outside the
\* dictionary with the feedback EAGER and ARISE give and one character more
GoodHintLines ==
    {[name |-> "hint",
      args |-> <<<<"a", "r", "i", "s", "e">>,
                 HintText(ARISE, FromGuessAndAnswer(ARISE, EAGER).val)>>],
     [name |-> "hint",
      args |-> <<CLOUD,
                 HintText(CLOUD, FromGuessAndAnswer(CLOUD, ARISE).val) \o <<"?">>>>]}

\* hint commands with a bad guess or bad feedback
BadHintLines ==
    {[name |-> "hint", args |-> <<<<"é", "A", "G", "E", "R">>, <<"_", "_", "_", "_", "_">>>>],
     [name |-> "hint", args |-> <<<<"A", "R", "I">>, <<"_", "_", "_">>>>],
     [name |-> "hint", args |-> <<ARISE, <<"_", "_", "_", "_">>>>],
     [name |-> "hint", args |-> <<EAGER, <<"g", "_", "*", "_", "_">>>>]}

\* the lines typed at the prompt, split at whitespace: the first token and the rest
InputLines ==
    {[name |-> n, args |-> <<>>] : n \in {"help", "history", "undo", "exit", "foo"}}
    \cup {[name |-> "undo", args |-> <<ARISE>>],
          [name |-> "hint", args |-> <<ARISE>>]}
    \cup {[name |-> "top", args |-> <<NatText(n)>>] : n \in 0..MaxTop}
    \cup {[name |-> "top", args |-> <<NatText(n), Strict>>] : n \in 0..MaxTop}
    \cup {[name |-> "top", args |-> <<NatText(MaxTop), <<"s">>>>]}
    \cup {[name |-> "score", args |-> <<w>>] :
             w \in {<<"e", "a", "g", "e", "r">>, CLOUD, <<"A", "R", "?", "S", "E">>}}
    \cup GoodHintLines
    \cup BadHintLines

\* ParseCommand taking history, undo and exit with arguments after the name
ParseCommandAnyArgs(line) ==
    CASE line.name = "top" /\ Len(line.args) \in {1, 2} /\ ParseUsize(line.args[1]).ok ->
            Ok([cmd |-> "top", n |-> ParseUsize(line.args[1]).val,
                strict |-> SubSeq(line.args, 2, Len(line.args))])
      [] line.name = "score" /\ Len(line.args) = 1 ->
            Ok([cmd |-> "score", word |-> line.args[1]])
      [] line.name = "hint" /\ Len(line.args) = 2 ->
            Ok([cmd |-> "hint", guess |-> line.args[1], hint |-> line.args[2]])
      [] line.name \in {"history", "undo", "exit"} ->
            Ok([cmd |-> line.name])
      [] OTHER -> Err("Bad command. Type 'help' for commands.")

\* SolverArgs::try_parse_from: the subcommand and its arguments, or an error
ParseCommand(line) ==
    CASE line.name = "top" /\ Len(line.args) \in {1, 2} /\ ParseUsize(line.args[1]).ok ->
            Ok([cmd |-> "top", n |-> ParseUsize(line.args[1]).val,
                strict |-> SubSeq(line.args, 2, Len(line.args))])
      [] line.name = "score" /\ Len(line.args) = 1 ->
            Ok([cmd |-> "score", word |-> line.args[1]])
      [] line.name = "hint" /\ Len(line.args) = 2 ->
            Ok([cmd |-> "hint", guess |-> line.args[1], hint |-> line.args[2]])
      [] line.name \in {"history", "undo", "exit"} /\ Len(line.args) = 0 ->
            Ok([cmd |-> line.name])
      [] OTHER -> Err("Bad command. Type 'help' for commands.")

-----------------------------------------------------------------------------
(* solve: the session *)

\* the loop's locals, as one value
Session == [remaining_guesses |-> remaining_guesses,
            remaining_answers |-> remaining_answers,
            removed_answers   |-> removed_answers,
            guess_history     |-> guess_history,
            word_scores       |-> word_scores]


\* what one command did: its line, how it ended and what it printed
Out(cmd, line, result, printed) ==
    [cmd |-> cmd, line |-> line, result |-> result, printed |-> printed]

NoLine == [name |-> "", args |-> <<>>]

FnIdle == [pc |-> "idle", op |-> "none", guess |-> <<>>, arg |-> <<>>,
           result |-> Err("")]

Init ==
    /\ unique_words \in {ws \in SUBSET Dictionary : Cardinality(ws) <= MaxWords}
    /\ word_list \in Orders(unique_words)
    /\ remaining_guesses = word_list
    /\ remaining_answers = word_list
    /\ word_scores = <<GetScores(word_list, word_list)>>
    /\ removed_answers = <<>>
    /\ guess_history = <<>>
    /\ status = "active"
    /\ steps = 0
    /\ output = [cmd |-> "start", line |-> NoLine, result |-> "ok",
                 printed |-> <<>>]
    /\ snapshots = <<>>
    /\ fn = FnIdle

\* a command that only prints
Prints(cmd, line, result, printed) ==
    /\ output' = Out(cmd, line, result, printed)
    /\ UNCHANGED <<unique_words, word_list, session, status, steps, snapshots, fn>>

\* a panic ends the process
Panics(cmd, line, message) ==
    /\ status' = "panicked"
    /\ output' = Out(cmd, line, "panic", <<message>>)
    /\ UNCHANGED <<unique_words, word_list, session, steps, snapshots, fn>>

\* args.len() == 2 && args[1] == "help"
IsHelp(line) == line.name = "help" /\ Len(line.args) = 0

Help(line) ==
    /\ status = "active"
    /\ IsHelp(line)
    /\ Prints("help", line, "ok", <<"HELP_MESSAGE">>)

\* try_parse_from fails
BadCommand(line) ==
    /\ status = "active"
    /\ ~ IsHelp(line)
    /\ ~ ParseCommand(line).ok
    /\ Prints("bad", line, "error", <<ParseCommand(line).err>>)

\* the rows top prints of a table: rank, word, avg_score, min_score
TopRows(scores, n) ==
    [i \in 1..Min(n, Len(scores)) |-> <<i, scores[i][1], scores[i][2], scores[i][3]>>]

\* TopScores without the filter
TopScoresUnfiltered(strict) == word_scores[Len(guess_history) + 1]

\* the table top reads: word_scores[guess_history.len()], filtered when strict
TopScores(strict) ==
    LET table == word_scores[Len(guess_history) + 1]
        InAnswers(e) == e[1] \in Range(remaining_answers)
    IN  IF strict = <<>> THEN table ELSE SelectSeq(table, InAnswers)

Top(line) ==
    /\ status = "active"
    /\ ~ IsHelp(line)
    /\ ParseCommand(line).ok
    /\ ParseCommand(line).val.cmd = "top"
    /\ LET c == ParseCommand(line).val
       IN  IF c.strict # <<>> /\ c.strict # <<Strict>>
           THEN Prints("top", line, "error", <<"Bad command. Type 'help' for commands.">>)
           ELSE IF Len(guess_history) + 1 > Len(word_scores)
           THEN Panics("top", line, "index out of bounds")
           ELSE Prints("top", line, "ok", TopRows(TopScores(c.strict), c.n))

\* the first entry of the table holding word, 0 for None
FindScore(scores, word) ==
    IF \E i \in 1..Len(scores) : scores[i][1] = word
    THEN CHOOSE i \in 1..Len(scores) :
            scores[i][1] = word /\ \A j \in 1..(i - 1) : scores[j][1] # word
    ELSE 0

Score(line) ==
    /\ status = "active"
    /\ ~ IsHelp(line)
    /\ ParseCommand(line).ok
    /\ ParseCommand(line).val.cmd = "score"
    /\ LET word == WordFromString(ParseCommand(line).val.word)
       IN  IF ~ word.ok
           THEN Prints("score", line, "error", <<word.err>>)
           ELSE IF Len(guess_history) + 1 > Len(word_scores)
           THEN Panics("score", line, "index out of bounds")
           ELSE LET scores == word_scores[Len(guess_history) + 1]
                    i == FindScore(scores, word.val)
                IN  IF i # 0
                    THEN Prints("score", line, "ok", <<i, scores[i][2], scores[i][3]>>)
                    ELSE Prints("score", line, "miss", <<"Word not found in word list.">>)

\* remaining_guesses.retain(|w| w != &guess)
RetainGuesses(guesses, guess) ==
    LET Keep(w) == w # guess
    IN  SelectSeq(guesses, Keep)

\* PartitionAnswers with the two halves exchanged
PartitionAnswersSwapped(answers, guess, hint) ==
    LET Same(w) == HintOf(guess, w).val = hint
        Other(w) == HintOf(guess, w).val # hint
    IN  [kept |-> SelectSeq(answers, Other), removed |-> SelectSeq(answers, Same)]

\* PartitionAnswers keeping every answer
PartitionAnswersKeepAll(answers, guess, hint) ==
    LET Other(w) == HintOf(guess, w).val # hint
    IN  [kept |-> answers, removed |-> SelectSeq(answers, Other)]

\* PartitionAnswers removing the first of the answers that give the hint too
PartitionAnswersDropFirst(answers, guess, hint) ==
    LET Same(w) == HintOf(guess, w).val = hint
        Other(w) == HintOf(guess, w).val # hint
        same == SelectSeq(answers, Same)
    IN  IF same = <<>>
        THEN [kept |-> same, removed |-> SelectSeq(answers, Other)]
        ELSE [kept |-> Tail(same),
              removed |-> Append(SelectSeq(answers, Other), Head(same))]

\* remaining_answers.into_iter().partition(|w| from_guess_and_answer(&guess, w) == hint)
PartitionAnswers(answers, guess, hint) ==
    LET Same(w) == HintOf(guess, w).val = hint
        Other(w) == HintOf(guess, w).val # hint
    IN  [kept |-> SelectSeq(answers, Same), removed |-> SelectSeq(answers, Other)]

\* the hint command once its arguments are accepted
ApplyHint(line, guess, hint) ==
    IF \E i \in 1..Len(remaining_answers) :
          ~ HintOf(guess, remaining_answers[i]).ok
    THEN Panics("hint", line, "Invalid hint")
    ELSE LET guesses == RetainGuesses(remaining_guesses, guess)
             parts == PartitionAnswers(remaining_answers, guess, hint)
         IN  /\ steps < MaxSteps
             /\ steps' = steps + 1
             /\ remaining_guesses' = guesses
             /\ remaining_answers' = parts.kept
             /\ word_scores' = Append(word_scores, GetScores(guesses, parts.kept))
             /\ guess_history' = Append(guess_history, <<guess, hint>>)
             /\ removed_answers' = Append(removed_answers, parts.removed)
             /\ snapshots' = Append(snapshots, [before |-> Session, after |-> Session'])
             /\ output' = Out("hint", line, "ok",
                              <<Len(parts.removed), Len(parts.kept)>>)
             /\ UNCHANGED <<unique_words, word_list, status, fn>>

Hint(line) ==
    /\ status = "active"
    /\ ~ IsHelp(line)
    /\ ParseCommand(line).ok
    /\ ParseCommand(line).val.cmd = "hint"
    /\ LET c == ParseCommand(line).val
           guess == WordFromString(c.guess)
           hint == HintFromString(c.hint, guess.val)
       IN  IF ~ guess.ok
           THEN Prints("hint", line, "error", <<guess.err>>)
           ELSE IF ~ hint.ok
           THEN Prints("hint", line, "error", <<hint.err>>)
           ELSE IF Len(guess.val) # WordSize \/ Len(hint.val) # WordSize
           THEN Prints("hint", line, "error", <<"Guess and hint must both have a size of">>)
           ELSE IF ~ \A i \in 1..Len(guess.val) : IsAlphabetic(guess.val[i])
           THEN Prints("hint", line, "error", <<"Guess must only contain alphabetic characters.">>)
           ELSE ApplyHint(line, guess.val, hint.val)

RECURSIVE SumLen(_, _)
SumLen(lists, n) == IF n = 0 THEN 0 ELSE SumLen(lists, n - 1) + Len(lists[n])

\* WordsBefore without n_words -= removed_words.len()
WordsBeforeFixed(n_words, i) == n_words

\* n_words when the loop of history reaches row i
WordsBefore(n_words, i) == n_words - SumLen(removed_answers, i - 1)

\* the rows history prints: i, guess, hint, removed, n_words, percent, remaining
HistoryRows(n_words) ==
    [i \in 1..Min(Len(guess_history), Len(removed_answers)) |->
        <<i, guess_history[i][1], guess_history[i][2], Len(removed_answers[i]),
          WordsBefore(n_words, i),
          [num |-> Len(removed_answers[i]) * 100, den |-> WordsBefore(n_words, i)],
          WordsBefore(n_words, i) - Len(removed_answers[i])>>]

History(line) ==
    /\ status = "active"
    /\ ~ IsHelp(line)
    /\ ParseCommand(line).ok
    /\ ParseCommand(line).val.cmd = "history"
    /\ LET n_words == Len(remaining_answers) + SumLen(removed_answers, Len(removed_answers))
       IN  Prints("history", line, "ok", <<n_words, HistoryRows(n_words)>>)

\* guess_history.pop(), removed_answers.pop(), word_scores.pop(): what is left
PopHistory(history) == SubSeq(history, 1, Len(history) - 1)
PopRemoved(removed) == SubSeq(removed, 1, Len(removed) - 1)
\* PopScores leaving the table in the cache
PopScoresKeep(scores) == scores

PopScores(scores) == SubSeq(scores, 1, Len(scores) - 1)

\* ExtendAnswers replacing the answers by the removed ones
ExtendAnswersReplace(answers, removed) == removed

\* remaining_answers.extend(answers)
ExtendAnswers(answers, removed) == answers \o removed

\* PushGuess pushing the guess twice
PushGuessTwice(guesses, guess) == Append(Append(guesses, guess), guess)

\* remaining_guesses.push(guess)
PushGuess(guesses, guess) == Append(guesses, guess)

Front(s) == SubSeq(s, 1, Len(s) - 1)
Last(s) == s[Len(s)]

\* UndoNothing popping the score table all the same
UndoNothingPops(line) ==
    /\ word_scores' = PopScores(word_scores)
    /\ output' = Out("undo", line, "nothing", <<"Nothing to undo.">>)
    /\ UNCHANGED <<unique_words, word_list, remaining_guesses, remaining_answers,
                   removed_answers, guess_history, status, steps, snapshots, fn>>

\* the else branch of undo: guess_history.pop() gave None
UndoNothing(line) == Prints("undo", line, "nothing", <<"Nothing to undo.">>)

Undo(line) ==
    /\ status = "active"
    /\ ~ IsHelp(line)
    /\ ParseCommand(line).ok
    /\ ParseCommand(line).val.cmd = "undo"
    /\ IF guess_history = <<>>
       THEN UndoNothing(line)
       ELSE IF removed_answers = <<>>
       THEN Panics("undo", line,
                   "No words to undo, mismatch between history and removed_words_lists")
       ELSE IF word_scores = <<>>
       THEN Panics("undo", line, "No word score lists to remove. Something went wrong.")
       ELSE /\ steps < MaxSteps
            /\ steps' = steps + 1
            /\ guess_history' = PopHistory(guess_history)
            /\ removed_answers' = PopRemoved(removed_answers)
            /\ word_scores' = PopScores(word_scores)
            /\ remaining_answers' = ExtendAnswers(remaining_answers, Last(removed_answers))
            /\ remaining_guesses' = PushGuess(remaining_guesses, Last(guess_history)[1])
            /\ snapshots' = Front(snapshots)
            /\ output' = Out("undo", line, "ok",
                             <<Len(remaining_answers) + Len(Last(removed_answers))>>)
            /\ UNCHANGED <<unique_words, word_list, status, fn>>

Exit(line) ==
    /\ status = "active"
    /\ ~ IsHelp(line)
    /\ ParseCommand(line).ok
    /\ ParseCommand(line).val.cmd = "exit"
    /\ status' = "exited"
    /\ output' = Out("exit", line, "ok", <<"Exiting solver...">>)
    /\ UNCHANGED <<unique_words, word_list, session, steps, snapshots, fn>>

\* the lines by the command the dispatch of solve gives them to
LinesOf(cmd) ==
    {line \in InputLines :
        IF IsHelp(line) THEN cmd = "help"
        ELSE IF ~ ParseCommand(line).ok THEN cmd = "bad"
        ELSE ParseCommand(line).val.cmd = cmd}

HelpLines == LinesOf("help")
BadLines == LinesOf("bad")
TopLines == LinesOf("top")
ScoreLines == LinesOf("score")
HintLines == LinesOf("hint")
HistoryLines == LinesOf("history")
UndoLines == LinesOf("undo")
ExitLines == LinesOf("exit")

Next ==
    \/ \E line \in HelpLines : Help(line)
    \/ \E line \in BadLines : BadCommand(line)
    \/ \E line \in TopLines : Top(line)
    \/ \E line \in ScoreLines : Score(line)
    \/ \E line \in HintLines : Hint(line)
    \/ \E line \in HistoryLines : History(line)
    \/ \E line \in UndoLines : Undo(line)
    \/ \E line \in ExitLines : Exit(line)

Spec == Init /\ [][Next]_vars

-----------------------------------------------------------------------------
(* The hint engine on its own: from_guess_and_answer and from_string applied *)
(* to words and feedback texts drawn from small sets                         *)

FnLetters == {"A", "E", "R"}
FnChars == {"a", "E", "*", "_", "?"}

\* the sequences over chars of length lo..hi
SeqsOf(chars, lo, hi) == UNION {[1..n -> chars] : n \in lo..hi}

FnWords == SeqsOf(FnLetters, 1, MaxLen) \cup {ARISE, EAGER, ABACK}

FnTexts == SeqsOf(FnChars, 0, MaxLen + 1) \cup {<<"g", "_", "*", "_", "_">>}

\* a call of op on guess and arg, not yet made
FnStart(op, guess, arg) ==
    [pc |-> "start", op |-> op, guess |-> guess, arg |-> arg, result |-> Err("")]

HintInit ==
    /\ unique_words = {}
    /\ word_list = <<>>
    /\ remaining_guesses = <<>>
    /\ remaining_answers = <<>>
    /\ removed_answers = <<>>
    /\ guess_history = <<>>
    /\ word_scores = <<>>
    /\ status = "idle"
    /\ steps = 0
    /\ output = [cmd |-> "start", line |-> NoLine, result |-> "ok", printed |-> <<>>]
    /\ snapshots = <<>>
    /\ \/ \E g \in FnWords, a \in FnWords :
              fn = FnStart("from_guess_and_answer", g, a)
       \/ \E g \in FnWords, t \in FnTexts :
              fn = FnStart("from_string", g, t)

ApplyFromGuessAndAnswer ==
    /\ fn.pc = "start"
    /\ fn.op = "from_guess_and_answer"
    /\ fn' = [fn EXCEPT !.pc = "done",
                        !.result = FromGuessAndAnswer(fn.guess, fn.arg)]
    /\ UNCHANGED <<unique_words, word_list, session, status, steps, output,
                   snapshots>>

ApplyFromString ==
    /\ fn.pc = "start"
    /\ fn.op = "from_string"
    /\ fn' = [fn EXCEPT !.pc = "done",
                        !.result = HintFromString(fn.arg, fn.guess)]
    /\ UNCHANGED <<unique_words, word_list, session, status, steps, output,
                   snapshots>>

HintNext == ApplyFromGuessAndAnswer \/ ApplyFromString

HintSpec == HintInit /\ [][HintNext]_vars

-----------------------------------------------------------------------------
(* get_scores on its own: the guesses cut into chunks, the chunks scored in  *)
(* any order, each hint_counts iterated in any order                         *)

\* the chunk size of par_chunks
ChunkSize == 100

\* the chunk sizes tried: the one of the code, which leaves the guesses in one
\* chunk, and the ones that cut them
ChunkSizes == (1..MaxGuesses) \cup {ChunkSize}

\* guesses.par_chunks(size): the number of chunks and the chunks, in the
\* order of the slice
NChunks(guesses, size) == (Len(guesses) + size - 1) \div size

ParChunks(guesses, size) ==
    [k \in 1..NChunks(guesses, size) |->
        SubSeq(guesses, (k - 1) * size + 1, Min(k * size, Len(guesses)))]

\* the (guess, avg_score, min_score) tuples the loop body can push for a guess
EntriesOf(guess, answers) ==
    LET hints == HintsOf(guess, answers)
    IN  {<<guess, AvgScoreIn(hints, keys), MinScore(hints)>> :
            keys \in KeyOrders(hints)}

\* the chunk_scores the closure can return for a chunk
RECURSIVE ChunkScoresOf(_, _)
ChunkScoresOf(chunk, answers) ==
    IF chunk = <<>> THEN {<<>>}
    ELSE {<<e>> \o rest : e \in EntriesOf(Head(chunk), answers),
                           rest \in ChunkScoresOf(Tail(chunk), answers)}

\* flat_map_iter and collect: the chunk_scores one after the other, in the
\* order of the chunks
RECURSIVE Flatten(_, _)
Flatten(lists, n) ==
    IF n = 0 THEN <<>> ELSE Flatten(lists, n - 1) \o lists[n]

\* a call of get_scores, no chunk scored yet
ScoreStart(guesses, answers, size) ==
    [pc |-> "start", op |-> "get_scores", guesses |-> guesses,
     answers |-> answers, chunk_size |-> size,
     finished |-> <<>>,
     chunk_scores |-> [k \in 1..NChunks(guesses, size) |-> <<>>],
     pb |-> 0, result |-> <<>>]

ScoreInit ==
    /\ unique_words = {}
    /\ word_list = <<>>
    /\ remaining_guesses = <<>>
    /\ remaining_answers = <<>>
    /\ removed_answers = <<>>
    /\ guess_history = <<>>
    /\ word_scores = <<>>
    /\ status = "idle"
    /\ steps = 0
    /\ output = [cmd |-> "start", line |-> NoLine, result |-> "ok", printed |-> <<>>]
    /\ snapshots = <<>>
    /\ \E guesses \in SeqsOf(GuessPool, 0, MaxGuesses), n \in 0..MaxAnswers,
          size \in ChunkSizes :
          fn = ScoreStart(guesses, SubSeq(AnswerPool, 1, n), size)

\* a worker runs the closure of map on a chunk not yet scored
RunChunk ==
    /\ fn.pc = "start"
    /\ \E k \in (1..Len(fn.chunk_scores)) \ Range(fn.finished) :
          LET chunk == ParChunks(fn.guesses, fn.chunk_size)[k]
          IN  \E cs \in ChunkScoresOf(chunk, fn.answers) :
                 fn' = [fn EXCEPT !.chunk_scores[k] = cs,
                                  !.pb = fn.pb + Len(chunk),
                                  !.finished = Append(fn.finished, k)]
    /\ UNCHANGED <<unique_words, word_list, session, status, steps, output,
                   snapshots>>

\* collect, once every chunk is scored, and the sort
CollectScores ==
    /\ fn.pc = "start"
    /\ Len(fn.finished) = Len(fn.chunk_scores)
    /\ LET scores == Flatten(fn.chunk_scores, Len(fn.chunk_scores))
       IN  fn' = [fn EXCEPT !.pc = "done",
                            !.result = SortScores(scores, Len(scores))]
    /\ UNCHANGED <<unique_words, word_list, session, status, steps, output,
                   snapshots>>

ScoreNext == RunChunk \/ CollectScores

ScoreSpec == ScoreInit /\ [][ScoreNext]_vars

-----------------------------------------------------------------------------
(* Properties of the hint engine, under HintSpec *)

CountIn(seq, c) == Cardinality({i \in 1..Len(seq) : seq[i] = c})

NoDuplicates(seq) == \A i, j \in 1..Len(seq) : i # j => seq[i] # seq[j]

HintDone(op) == fn.pc = "done" /\ fn.op = op

\* the positions of the guess holding c that the hint marks Correct or Misplaced
Marked(guess, hint, c) ==
    Cardinality({i \in 1..Len(guess) :
                    guess[i] = c /\ hint[i] \in {"Correct", "Misplaced"}})

\* C2: for words g and a of equal length, from_guess_and_answer(g, a) marks
\* as many positions Correct as there are indices where g and a agree, and
\* for every letter c it marks at most min(#c in g, #c in a) positions of g
\* holding c as Correct or Misplaced.
C2_HintCounts ==
    (HintDone("from_guess_and_answer") /\ Len(fn.guess) = Len(fn.arg)) =>
        /\ fn.result.ok
        /\ Len(fn.result.val) = Len(fn.guess)
        /\ Cardinality({i \in 1..Len(fn.guess) : fn.result.val[i] = "Correct"})
              = Cardinality({i \in 1..Len(fn.guess) : fn.guess[i] = fn.arg[i]})
        /\ \A c \in Range(fn.guess) \cup Range(fn.arg) :
              Marked(fn.guess, fn.result.val, c)
                 <= Min(CountIn(fn.guess, c), CountIn(fn.arg, c))

\* a guess with more of a letter than the answer has, marked as often as the
\* answer has it, one of the marks Misplaced
C2_Witness ==
    /\ HintDone("from_guess_and_answer")
    /\ fn.result.ok
    /\ \E c \in Range(fn.guess) :
          /\ CountIn(fn.guess, c) > CountIn(fn.arg, c)
          /\ CountIn(fn.arg, c) >= 1
          /\ Marked(fn.guess, fn.result.val, c) = CountIn(fn.arg, c)
          /\ \E i \in 1..Len(fn.guess) :
                fn.guess[i] = c /\ fn.result.val[i] = "Misplaced"

\* C3, as amended: from_guess_and_answer with guess ARISE and answer EAGER
\* returns [Misplaced, Misplaced, Incorrect, Incorrect, Misplaced].
C3_AriseEager ==
    (HintDone("from_guess_and_answer") /\ fn.guess = ARISE /\ fn.arg = EAGER) =>
        fn.result = Ok(<<"Misplaced", "Misplaced", "Incorrect", "Incorrect", "Misplaced">>)

C3_Witness ==
    /\ HintDone("from_guess_and_answer")
    /\ fn.guess = ARISE /\ fn.arg = EAGER
    /\ fn.result.ok

\* C3 as the claim states it: the last letter of ARISE is marked Correct
C3_Original ==
    (HintDone("from_guess_and_answer") /\ fn.guess = ARISE /\ fn.arg = EAGER) =>
        fn.result = Ok(<<"Misplaced", "Misplaced", "Incorrect", "Incorrect", "Correct">>)

\* the character of text at index i is neither '*' nor '_' nor the letter of
\* the guess at that index
BadHintChar(text, guess, i) ==
    /\ text[i] \notin {"*", "_"}
    /\ (i > Len(guess) \/ ToAsciiUppercase(text[i]) # guess[i])

\* C9: from_string(text, guess) returns an error whenever text holds a
\* character that is neither '*' nor '_' nor the guess letter at that
\* position, and whenever text and guess differ in length.
C9_Original ==
    (/\ HintDone("from_string")
     /\ \/ \E i \in 1..Len(fn.arg) : BadHintChar(fn.arg, fn.guess, i)
        \/ Len(fn.arg) # Len(fn.guess)) =>
        ~ fn.result.ok

-----------------------------------------------------------------------------
(* Properties of the session, under Spec *)

\* the hint command that gave the last history entry
LastGuess == Last(guess_history)[1]
LastHint == Last(guess_history)[2]

\* C1: a hint followed by undo leaves remaining_answers, remaining_guesses,
\* the history with its removed answers and the score tables as they were
\* before the hint, order and multiplicity included.  The undo steps taken in
\* the state the hint left are the steps it speaks of.
C1_Original ==
    [][(/\ output'.cmd = "undo" /\ output'.result = "ok"
        /\ Last(snapshots).after = Session) =>
          Session' = Last(snapshots).before]_vars

\* C4: an accepted hint(g, h) splits remaining_answers by consistency: what
\* stays is the answers w with from_guess_and_answer(g, w) = h, what is pushed
\* as removed is the answers with another hint, and no word is lost or doubled.
C4_HintPartitions ==
    [][(output'.cmd = "hint" /\ output'.result = "ok") =>
          LET g == Last(guess_history')[1]
              h == Last(guess_history')[2]
              old == Range(remaining_answers)
              removed == Last(removed_answers')
          IN  /\ Range(remaining_answers')
                    = {w \in old : FromGuessAndAnswer(g, w) = Ok(h)}
              /\ Range(removed)
                    = {w \in old : FromGuessAndAnswer(g, w) # Ok(h)}
              /\ Len(remaining_answers') + Len(removed) = Len(remaining_answers)
              /\ NoDuplicates(remaining_answers' \o removed)]_vars

\* a hint that kept some answers and removed others
C4_Witness ==
    /\ output.cmd = "hint" /\ output.result = "ok"
    /\ remaining_answers # <<>>
    /\ Last(removed_answers) # <<>>

\* C5: in every state of the session there is one score table more than
\* history entries and as many removed sets as history entries, and no
\* expect() of undo (no index into word_scores either) panics.
C5_StackLengths ==
    /\ status # "panicked"
    /\ Len(word_scores) = Len(guess_history) + 1
    /\ Len(removed_answers) = Len(guess_history)

\* an undo that left a hint in the history
C5_Witness ==
    /\ output.cmd = "undo" /\ output.result = "ok"
    /\ Len(guess_history) >= 1

\* remaining_answers as it was at history depth k
AnswersAtDepth(k) ==
    IF k = Len(guess_history) THEN remaining_answers
    ELSE snapshots[k + 1].before.remaining_answers

\* C6: remaining_answers and the removed sets of the stack partition the
\* word list, and remaining_answers at depth k is remaining_answers at depth
\* k - 1 minus the removed set of step k.
C6_Partition ==
    LET parts == <<remaining_answers>> \o removed_answers
    IN  /\ \A p \in 1..Len(parts) : NoDuplicates(parts[p])
        /\ \A p, q \in 1..Len(parts) :
              p # q => Range(parts[p]) \cap Range(parts[q]) = {}
        /\ UNION {Range(parts[p]) : p \in 1..Len(parts)} = unique_words
        /\ \A k \in 1..Len(guess_history) :
              Range(AnswersAtDepth(k))
                 = Range(AnswersAtDepth(k - 1)) \ Range(removed_answers[k])

\* after hint, hint, undo: a hint in the history that removed answers, and
\* answers restored by the undo
C6_Witness ==
    /\ output.cmd = "undo" /\ output.result = "ok"
    /\ Len(guess_history) = 1
    /\ removed_answers[1] # <<>>
    /\ remaining_answers # <<>>

\* every hint of the history is the one secret s gives
TrueOf(s) ==
    \A k \in 1..Len(guess_history) :
        FromGuessAndAnswer(guess_history[k][1], s) = Ok(guess_history[k][2])

\* C7: a secret word of the word list that gives every hint applied is still
\* in remaining_answers, whatever hints and undos were run.
C7_SecretStays ==
    \A s \in unique_words : TrueOf(s) => s \in Range(remaining_answers)

\* two different hints true of a secret, the second of which removed a word
C7_Witness ==
    /\ Len(guess_history) = 2
    /\ guess_history[1] # guess_history[2]
    /\ removed_answers[2] # <<>>
    /\ \E s \in unique_words : TrueOf(s)

\* C8: no guess of the history is in remaining_guesses, and a word comes back
\* into remaining_guesses only by the undo of the hint that played it.
C8_Original ==
    /\ [](\A k \in 1..Len(guess_history) :
             guess_history[k][1] \notin Range(remaining_guesses))
    /\ [][\A w \in Range(remaining_guesses') \ Range(remaining_guesses) :
             output'.cmd = "undo" /\ w = LastGuess]_vars

\* C10: a hint command whose guess text or feedback text is not WordSize
\* characters long is rejected and changes none of remaining_guesses,
\* remaining_answers, history, removed answers and score tables.
C10_Original ==
    [][(/\ output'.cmd = "hint"
        /\ \/ Len(output'.line.args[1]) # WordSize
           \/ Len(output'.line.args[2]) # WordSize) =>
          (output'.result = "error" /\ Session' = Session)]_vars

\* the commands of the REPL and the arguments each takes after its name
ArgCounts ==
    [top |-> {1, 2}, score |-> {1}, hint |-> {2}, history |-> {0}, undo |-> {0},
     exit |-> {0}, help |-> {0}]

\* a line that names no command or gives a command the wrong number of arguments
WrongShape(line) ==
    \/ line.name \notin DOMAIN ArgCounts
    \/ Len(line.args) \notin ArgCounts[line.name]

\* a text holding a character that is not a letter
NonAlphabetic(text) == \E i \in 1..Len(text) : text[i] \notin Alphabetic

\* a line the REPL has to refuse: no such command, a wrong number of
\* arguments, a third token of top other than strict, a word that is not
\* alphabetic, a guess of the wrong size, a feedback text shorter than the
\* guess, or a feedback character that is neither '*', '_' nor the guess letter
Refused(line) ==
    \/ WrongShape(line)
    \/ line.name = "top" /\ Len(line.args) = 2 /\ line.args[2] # Strict
    \/ line.name \in {"score", "hint"} /\ NonAlphabetic(line.args[1])
    \/ line.name = "hint" /\ Len(line.args[1]) # WordSize
    \/ line.name = "hint" /\ Len(line.args[2]) < Len(line.args[1])
    \/ line.name = "hint"
          /\ \E i \in 1..Min(Len(line.args[1]), Len(line.args[2])) :
                /\ line.args[2][i] \notin {"*", "_"}
                /\ ToAsciiUppercase(line.args[2][i]) # ToAsciiUppercase(line.args[1][i])

C12_UndoOnEmptyHistory ==
    [][(output'.cmd = "undo" /\ guess_history = <<>>) =>
          /\ output'.result = "nothing"
          /\ Session' = Session
          /\ status' = "active"
          /\ Len(word_scores') = 1]_vars

\* an undo with nothing to undo, in a session that had run a hint and its undo
C12_Witness ==
    /\ output.cmd = "undo"
    /\ output.result = "nothing"
    /\ steps >= 2
    /\ word_scores # <<>>

\* C14: a hint that leaves remaining_answers empty completes: it pushes its
\* history entry, its removed answers and a score table with an entry for
\* every remaining guess, and the session stays active; and no command run
\* while remaining_answers is empty panics.
C14_EmptyAnswers ==
    [][/\ (output'.cmd = "hint" /\ output'.result = "ok" /\ remaining_answers' = <<>>) =>
             /\ status' = "active"
             /\ Len(guess_history') = Len(guess_history) + 1
             /\ Len(removed_answers') = Len(removed_answers) + 1
             /\ Len(word_scores') = Len(word_scores) + 1
             /\ Len(Last(word_scores')) = Len(remaining_guesses')
       /\ (remaining_answers = <<>> /\ status = "active") =>
             (status' # "panicked" /\ output'.result # "panic")]_vars

\* a hint accepted when no answer was left, with guesses still to score
C14_Witness ==
    /\ output.cmd = "hint" /\ output.result = "ok"
    /\ Len(guess_history) >= 2
    /\ removed_answers[1] # <<>>
    /\ Last(removed_answers) = <<>>
    /\ remaining_answers = <<>>
    /\ remaining_guesses # <<>>
    /\ status = "active"

\* the command hint EAGER g_*__
EagerLine ==
    [name |-> "hint", args |-> <<EAGER, <<"g", "_", "*", "_", "_">>>>]

\* C15, as amended: the command hint EAGER g_*__ is refused with "Invalid
\* hint character", g being neither '*', '_' nor the first letter of EAGER,
\* and changes nothing: EAGER stays in remaining_answers.
C15_EagerRefused ==
    [][output'.line = EagerLine =>
          /\ output'.result = "error"
          /\ output'.printed = <<"Invalid hint character">>
          /\ Session' = Session]_vars

\* the command was given while EAGER was an answer, and EAGER still is one
C15_Witness ==
    /\ output.line = EagerLine
    /\ output.result = "error"
    /\ EAGER \in Range(remaining_answers)

\* C15 as the claim states it: the command removes EAGER from remaining_answers
C15_Original ==
    [][(output'.line = EagerLine /\ EAGER \in Range(remaining_answers)) =>
          EAGER \notin Range(remaining_answers')]_vars

C17_HistoryRows ==
    /\ [](output.cmd = "history" =>
             LET rows == output.printed[2]
             IN  /\ output.printed[1] = Cardinality(unique_words)
                 /\ Len(rows) = Len(guess_history)
                 /\ \A i \in 1..Len(rows) :
                       /\ rows[i][1] = i
                       /\ rows[i][2] = guess_history[i][1]
                       /\ rows[i][4] = Len(removed_answers[i])
                       /\ rows[i][5] = Len(AnswersAtDepth(i - 1))
                       /\ rows[i][7] = Len(AnswersAtDepth(i))
                 /\ rows # <<>> =>
                       /\ rows[1][5] = Cardinality(unique_words)
                       /\ rows[Len(rows)][7] = Len(remaining_answers))
    /\ [][output'.cmd = "history" => (Session' = Session /\ status' = status)]_vars

\* a history of two hints, the second of which removed answers
C17_Witness ==
    /\ output.cmd = "history"
    /\ Len(output.printed[2]) = 2
    /\ output.printed[2][2][4] > 0
    /\ output.printed[2][1][4] > 0

\* s and t hold the same words, each as often in one as in the other
SameMembers(s, t) ==
    \A w \in Range(s) \cup Range(t) : CountIn(s, w) = CountIn(t, w)

\* C19: when the guess of an accepted hint is exactly once in
\* remaining_guesses, the hint followed by undo gives back remaining_guesses
\* and remaining_answers with the same words, each as often as before, in
\* whatever order, and the history, the removed answers and the score tables
\* exactly as they were.
C19_HintUndoRestoresMembers ==
    [][(/\ output'.cmd = "undo" /\ output'.result = "ok"
        /\ Last(snapshots).after = Session
        /\ CountIn(Last(snapshots).before.remaining_guesses, LastGuess) = 1) =>
          LET before == Last(snapshots).before
          IN  /\ SameMembers(remaining_guesses', before.remaining_guesses)
              /\ SameMembers(remaining_answers', before.remaining_answers)
              /\ guess_history' = before.guess_history
              /\ removed_answers' = before.removed_answers
              /\ word_scores' = before.word_scores]_vars

\* hint arise and its undo, on a list of two words holding ARISE: ARISE is
\* back, at the end
C19_Witness ==
    /\ output.cmd = "undo" /\ output.result = "ok"
    /\ steps = 2
    /\ ARISE \in unique_words
    /\ Len(remaining_guesses) = 2
    /\ Last(remaining_guesses) = ARISE

\* C20: every word of remaining_guesses is a word of the word list and is in
\* remaining_guesses once.
C20_Original ==
    /\ Range(remaining_guesses) \subseteq unique_words
    /\ NoDuplicates(remaining_guesses)

\* C21: a hint(g, h) accepted right after an accepted hint(g, h) removes no
\* answer: its removed set is empty and remaining_answers is unchanged, while
\* the history, the removed answers and the score tables each grow by one.
C21_HintTwice ==
    [][(/\ output.cmd = "hint" /\ output.result = "ok"
        /\ output'.cmd = "hint" /\ output'.result = "ok"
        /\ Last(guess_history') = Last(guess_history)) =>
          /\ Last(removed_answers') = <<>>
          /\ remaining_answers' = remaining_answers
          /\ Len(guess_history') = Len(guess_history) + 1
          /\ Len(removed_answers') = Len(removed_answers) + 1
          /\ Len(word_scores') = Len(word_scores) + 1]_vars

\* the same hint twice in a row, the first of which removed answers and kept
\* others
C21_Witness ==
    /\ output.cmd = "hint" /\ output.result = "ok"
    /\ Len(guess_history) = 2
    /\ guess_history[1] = guess_history[2]
    /\ removed_answers[1] # <<>>
    /\ remaining_answers # <<>>

\* the score table the session has after hint(g, h) as its first command
DirectTable(g, h) ==
    GetScores(RetainGuesses(word_list, g), PartitionAnswers(word_list, g, h).kept)

\* C22: the score table a hint(g2, h2) pushes after a hint(g1, h1) and its
\* undo is the table the session started from the same word list in the same
\* order has after hint(g2, h2) alone: the same words at the same ranks with
\* the same scores.
C22_Original ==
    [][(/\ output'.cmd = "hint" /\ output'.result = "ok"
        /\ steps = 2 /\ guess_history = <<>>) =>
          Last(word_scores')
             = DirectTable(Last(guess_history')[1], Last(guess_history')[2])]_vars

-----------------------------------------------------------------------------
(* Properties of get_scores, under ScoreSpec *)

\* C13: get_scores returns one sequence of entries for a guess list and an
\* answer list, the one it returns with the guesses in one chunk, whatever
\* the chunk size and the order the chunks are run and finished in.
C13_Original ==
    HintDone("get_scores") => fn.result = GetScores(fn.guesses, fn.answers)

\* 100.0 as an f32
F32Hundred == 1120403456

\* the most answers that give one hint for the guess
LargestBucket(guess, answers) ==
    LET Bucket(h) == {i \in 1..Len(answers) : HintOf(guess, answers[i]) = h}
        sizes == {Cardinality(Bucket(HintOf(guess, answers[i]))) :
                     i \in 1..Len(answers)}
    IN  CHOOSE c \in sizes : \A d \in sizes : d <= c

\* C18: every entry get_scores returns has an avg_score in [0, 100) and a
\* min_score in [0, 100], with no answers too, and with answers the
\* min_score is 100 * (1 - largest bucket / number of answers).
C18_ScoreRanges ==
    HintDone("get_scores") =>
        /\ Len(fn.result) = Len(fn.guesses)
        /\ \A i \in 1..Len(fn.result) :
              LET e == fn.result[i]
                  n == Len(fn.answers)
              IN  /\ 0 <= e[2] /\ e[2] < F32Hundred
                  /\ e[3].den > 0
                  /\ 0 <= e[3].num /\ e[3].num <= 100 * e[3].den
                  /\ n > 0 =>
                        e[3].num * n
                           = 100 * (n - LargestBucket(e[1], fn.answers)) * e[3].den

\* get_scores returned entries for an empty answer list
C18_Witness ==
    /\ HintDone("get_scores")
    /\ fn.answers = <<>>
    /\ fn.result # <<>>
    /\ fn.result[1][2] = 0
    /\ fn.result[1][3].num = 100 * fn.result[1][3].den

=============================================================================
